---------------------------- MODULE Spec2Model ----------------------------
(***************************************************************************)
(* TimeSync (src/app.js): the availability grid, its cache, the best-time  *)
(* ranker, and the handlers that change the participant list and the       *)
(* settings.                                                               *)
(*                                                                         *)
(* Time is counted in minutes since 00:00 UTC of day 0.  A time string     *)
(* "HH:MM" is the pair of its fields <<HH, MM>>.  A timezone is a name of  *)
(* the table Zones; the platform's timezone database is the operator       *)
(* TzOffsetAt.                                                             *)
(***************************************************************************)
EXTENDS Integers, Sequences, FiniteSets, TLC

(* ------------------------------ bounds --------------------------------- *)
\* Identifiers uid() hands out in one behaviour.
MaxIds == 2
\* Steps of the wall clock in one behaviour.
MaxTicks == 1
\* Actions history.past may hold in the model (the program's own limit is
\* HistoryMaxSize).
MaxHistory == 2
\* Days the days selector offers: 1 .. MaxDays.
MaxDays == 2
\* Valid lines of the text pasted into the bulk import.
ImportLines == 1
\* Participants the list may hold in the model before quick add and bulk
\* import stop (the handlers themselves have no limit).
MaxCrowd == 21

(* ------------------------- program constants --------------------------- *)
SlotsPerDay == 48
SlotMinutes == 30
DayMinutes == 24 * 60
LunchStart == 12 * 60
LunchEnd == 13 * 60
ConflictBefore == 7
ConflictFrom == 22
RequiredBonus == 2
ParticipantLimit == 20
HistoryMaxSize == 50
PaletteSize == 10
DefaultDuration == 60
DefaultDays == 1
DefaultMaxSuggestions == 5
AverageWeight == 60
GoldenWeight == 40
WorstPairHours == 3
WorstPairLimit == 3

(* ----------------------------- environment ----------------------------- *)
\* The host's local zone, as toDateString() and setDate() see it: UTC-5.
HostOffset == 0 - 300
\* The wall clock at load: 16:00 UTC of day 0, and the width of one step.
NowStart == 16 * 60
ClockStep == 12 * 60
\* "America/New_York" leaves daylight time at 06:00 UTC of day 1.
DstEnd == DayMinutes + 6 * 60

\* "Europe/London" is back on Greenwich time on these days.
Zones == {"UTC", "Asia/Kolkata", "America/New_York", "Europe/London"}

\* The offsets with east and west of Greenwich swapped.
TzOffsetSwapped(tz, instant) ==
    CASE tz = "UTC" -> 0
      [] tz = "Europe/London" -> 0
      [] tz = "Asia/Kolkata" -> 0 - 330
      [] tz = "America/New_York" -> IF instant < DstEnd THEN 240 ELSE 300

TzOffsetAt(tz, instant) ==
    CASE tz = "UTC" -> 0
      [] tz = "Europe/London" -> 0
      [] tz = "Asia/Kolkata" -> 330
      [] tz = "America/New_York" -> IF instant < DstEnd THEN 0 - 240 ELSE 0 - 300

NoPriority == ""

(* ----------------------------- utilities ------------------------------- *)
Min(a, b) == IF a <= b THEN a ELSE b

parseTime(timeStr) == timeStr[1] * 60 + timeStr[2]

\* isInRange with the end of the window counted in.
isInRangeClosed(minutes, start, end) ==
    IF start <= end
    THEN minutes >= start /\ minutes <= end
    ELSE minutes >= start \/ minutes <= end

isInRange(minutes, start, end) ==
    IF start <= end
    THEN minutes >= start /\ minutes < end
    ELSE minutes >= start \/ minutes < end

generateColor(index) == index % PaletteSize

\* Intl.DateTimeFormat(...).formatToParts(utcDate): the wall clock of the
\* zone at the instant.
LocalClock(tz, instant) ==
    LET local == (instant + TzOffsetAt(tz, instant)) % DayMinutes
    IN  [hour |-> local \div 60, minute |-> local % 60]

\* baseDate.toDateString(): the host-local calendar day.
LocalDate(instant) == (instant + HostOffset) \div DayMinutes

\* getUTCFullYear / getUTCMonth / getUTCDate: the UTC calendar day.
UtcDate(instant) == instant \div DayMinutes

\* new Date(); setDate(getDate() + day)
BaseDate(clock, day) == clock + day * DayMinutes

(* --------------------------- slot grid builder ------------------------- *)
\* Only the early hours taken as a conflict.
IsConflictBeforeSeven(p, instant) ==
    LocalClock(p.timezone, instant).hour < ConflictBefore

\* const isConflict = localHour < 7 || localHour >= 22
IsConflict(p, instant) ==
    LET localHour == LocalClock(p.timezone, instant).hour
    IN  localHour < ConflictBefore \/ localHour >= ConflictFrom

\* The minute of the day read off the UTC clock, whatever the zone.
UtcMinutes(tz, instant) == instant % DayMinutes

\* localTime.getHours() * 60 + localTime.getMinutes()
LocalMinutes(tz, instant) == (instant + TzOffsetAt(tz, instant)) % DayMinutes

\* The working-hours test alone, the lunch test left out.
InWorkingHoursOnly(p, lunch, localMinutes) ==
    isInRange(localMinutes, parseTime(p.start), parseTime(p.end))

\* The lunch test and the working-hours test on localMinutes.
InWorkingHours(p, lunch, localMinutes) ==
    /\ ~(lunch /\ localMinutes >= LunchStart /\ localMinutes < LunchEnd)
    /\ isInRange(localMinutes, parseTime(p.start), parseTime(p.end))

\* One pass of the loop body for participant p and one slot: TRUE iff the
\* participant is pushed onto the slot.
SlotIncludes(p, lunch, instant) ==
    /\ p.timezone \in Zones
    /\ InWorkingHours(p, lunch, LocalMinutes(p.timezone, instant))

\* slot.participants.push({ name, color, isConflict }) for each one included
SlotEntries(inc, instant) ==
    [k \in DOMAIN inc |->
        [name |-> inc[k].name,
         color |-> inc[k].color,
         isConflict |-> IsConflict(inc[k], instant)]]

\* slot.count++ goes with each push; hasConflict is set by a conflicting one
SlotRecord(entries) ==
    [count |-> Len(entries),
     participants |-> entries,
     hasConflict |-> \E k \in DOMAIN entries : entries[k].isConflict]

\* The loop over the participants given up at the first failing projection.
BuildSlotUntilError(parts, lunch, instant) ==
    SlotRecord(SlotEntries(
        SelectSeq(SubSeq(parts, 1,
                         Cardinality({k \in DOMAIN parts :
                                        \A m \in 1 .. k : parts[m].timezone \in Zones})),
                  LAMBDA p : SlotIncludes(p, lunch, instant)),
        instant))

BuildSlot(parts, lunch, instant) ==
    SlotRecord(SlotEntries(SelectSeq(parts, LAMBDA p : SlotIncludes(p, lunch, instant)),
                           instant))

\* The grid with a slot for the midnight that closes the day as well.
BuildGridThroughMidnight(parts, lunch, utcDay) ==
    [i \in 0 .. SlotsPerDay |->
        BuildSlot(parts, lunch, utcDay * DayMinutes + i * SlotMinutes)]

\* Array.from({ length: 48 }) filled slot by slot from Date.UTC(.., 0, i * 30)
BuildGrid(parts, lunch, utcDay) ==
    [i \in 0 .. SlotsPerDay - 1 |->
        BuildSlot(parts, lunch, utcDay * DayMinutes + i * SlotMinutes)]

(* ------------------------------ slot cache ----------------------------- *)
CacheKey(baseDate, parts) ==
    <<LocalDate(baseDate), [k \in DOMAIN parts |-> parts[k].id]>>

\* state.cache[cacheKey] = slots; return slots
Stored(ctx, cacheKey, slots, utcDay) ==
    [ctx EXCEPT
        !.cache = (cacheKey :> slots) @@ @,
        !.calls = Append(@, [key |-> cacheKey, hit |-> FALSE, utcDay |-> utcDay,
                             grid |-> slots])]

\* calculateSlotAvailability without the cache lookup: it always rebuilds.
SlotAvailabilityRebuilt(ctx, cacheKey, baseDate, parts, lunch) ==
    Stored(ctx, cacheKey, BuildGrid(parts, lunch, UtcDate(baseDate)),
           UtcDate(baseDate))

\* The body of calculateSlotAvailability once cacheKey is computed.
SlotAvailabilityFor(ctx, cacheKey, baseDate, parts, lunch) ==
    IF cacheKey \in DOMAIN ctx.cache
    THEN [ctx EXCEPT !.calls = Append(@, [key |-> cacheKey, hit |-> TRUE,
                                           utcDay |-> UtcDate(baseDate),
                                           grid |-> ctx.cache[cacheKey]])]
    ELSE Stored(ctx, cacheKey, BuildGrid(parts, lunch, UtcDate(baseDate)),
                UtcDate(baseDate))

\* calculateSlotAvailability(baseDate) on the cache and call log of ctx.
calculateSlotAvailability(ctx, baseDate, parts, lunch) ==
    SlotAvailabilityFor(ctx, CacheKey(baseDate, parts), baseDate, parts, lunch)

(* --------------------------- best-time ranker -------------------------- *)
\* slotsNeeded held to the slots of one day.
SlotsWithinDay(dur) ==
    Min((dur + SlotMinutes - 1) \div SlotMinutes, SlotsPerDay)

\* Math.ceil(state.duration / 30)
SlotsNeeded(dur) == (dur + SlotMinutes - 1) \div SlotMinutes

RECURSIVE WindowCount(_, _, _)
\* score += slots[i + j].count for j = 0 .. n-1
WindowCount(slots, i, n) ==
    IF n <= 0 THEN 0
    ELSE slots[i + n - 1].count + WindowCount(slots, i, n - 1)

\* availableSet taken from the first slot of the window alone.
FirstSlotSet(slots, i, n) ==
    {slots[i].participants[k].name : k \in DOMAIN slots[i].participants}

\* availableSet: every name pushed onto some slot of the window.
AvailableSet(slots, i, n) ==
    UNION {{slots[i + j].participants[k].name :
               k \in DOMAIN slots[i + j].participants} : j \in 0 .. n - 1}

IsRequired(p) == p.priority = "required"

\* The bonus given to every available participant, whatever the priority.
AnyPriorityScore(parts, availableSet) ==
    RequiredBonus *
      Cardinality({k \in DOMAIN parts : parts[k].name \in availableSet})

RequiredScore(parts, availableSet) ==
    RequiredBonus *
      Cardinality({k \in DOMAIN parts :
                      IsRequired(parts[k]) /\ parts[k].name \in availableSet})

\* The label 'Error' of a start time that could not be formatted.
ErrorTime == [hour |-> 0 - 1, minute |-> 0 - 1]

\* p.priority || 'required'
PriorityOrDefault(p) == IF p.priority = NoPriority THEN "required" ELSE p.priority

LocalTimes(parts, availableSet, startDate) ==
    [k \in DOMAIN parts |->
        IF parts[k].timezone \in Zones
        THEN [name |-> parts[k].name,
              time |-> LocalClock(parts[k].timezone, startDate),
              available |-> parts[k].name \in availableSet,
              color |-> parts[k].color,
              priority |-> PriorityOrDefault(parts[k])]
        ELSE [name |-> parts[k].name,
              time |-> ErrorTime,
              available |-> FALSE,
              color |-> parts[k].color,
              priority |-> PriorityOrDefault(parts[k])]]

\* The window starting at slot i: its score and its availableSet.
Scored(slots, parts, i, n, availableSet) ==
    [i |-> i,
     availableSet |-> availableSet,
     score |-> WindowCount(slots, i, n) + RequiredScore(parts, availableSet)]

Candidate(slots, parts, i, n) ==
    Scored(slots, parts, i, n, AvailableSet(slots, i, n))

\* results.push({ start, score, available, localTimes, day })
Result(c, parts, startDate, day) ==
    [start |-> startDate,
     score |-> c.score,
     available |-> c.availableSet,
     localTimes |-> LocalTimes(parts, c.availableSet, startDate),
     day |-> day]

Pushed(kept, parts, baseDate, day) ==
    [k \in DOMAIN kept |->
        Result(kept[k], parts,
               UtcDate(baseDate) * DayMinutes + kept[k].i * SlotMinutes, day)]

\* The candidates of one day with those of score 0 kept.
DayResultsUnfiltered(slots, parts, n, baseDate, day) ==
    Pushed([k \in 1 .. SlotsPerDay - n + 1 |-> Candidate(slots, parts, k - 1, n)],
           parts, baseDate, day)

\* The candidates of one day, in start-index order, score 0 dropped.
DayResults(slots, parts, n, baseDate, day) ==
    Pushed(SelectSeq([k \in 1 .. SlotsPerDay - n + 1 |->
                         Candidate(slots, parts, k - 1, n)],
                     LAMBDA c : c.score > 0),
           parts, baseDate, day)

\* The greatest of a non-empty set of scores.
TopScore(scores) == CHOOSE s \in scores : \A t \in scores : t <= s

RECURSIVE SortByScore(_)

\* The results left in generation order.
Unsorted(results) == results

\* The results of score top, in their order, ahead of the rest sorted.
TopFirst(results, top) ==
    SelectSeq(results, LAMBDA r : r.score = top)
      \o SortByScore(SelectSeq(results, LAMBDA r : r.score # top))

\* results.sort((a, b) => b.score - a.score): descending, equal scores keep
\* their order.
SortByScore(results) ==
    IF results = <<>> THEN <<>>
    ELSE TopFirst(results, TopScore({results[k].score : k \in DOMAIN results}))

\* The least of a non-empty set of overlaps.
LeastOverlap(overlaps) == CHOOSE s \in overlaps : \A t \in overlaps : s <= t

\* if (overlap < 3) pairs.push({ p1: p1.name, p2: p2.name, overlap })
PairIfWorse(i, j, parts, clock, overlap) ==
    IF overlap < WorstPairHours * 10
    THEN <<[p1 |-> parts[i].name, p2 |-> parts[j].name, overlap |-> overlap]>>
    ELSE <<>>

\* results.slice(0, maxSuggestions)
Slice(results, maxN) == SubSeq(results, 1, Min(maxN, Len(results)))

\* One pass of the day loop, on the context c1 the slot lookup left.
RankDay(c1, day, parts, dur, baseDate) ==
    [c1 EXCEPT !.results =
        @ \o DayResults(c1.cache[CacheKey(baseDate, parts)], parts,
                        SlotsNeeded(dur), baseDate, day)]

RECURSIVE RankDays(_, _, _, _, _, _, _)
\* The loop over day = from .. days-1: ctx carries the cache, the call log
\* and the results gathered so far.
RankDays(ctx, day, nDays, parts, lunch, dur, clock) ==
    IF day >= nDays THEN ctx
    ELSE RankDays(RankDay(calculateSlotAvailability(ctx, BaseDate(clock, day),
                                                    parts, lunch),
                          day, parts, dur, BaseDate(clock, day)),
                  day + 1, nDays, parts, lunch, dur, clock)

\* calculateBestTimes() on ctx: leaves the returned list in ctx.results.
calculateBestTimes(ctx, parts, lunch, dur, nDays, maxN, clock) ==
    LET c1 == RankDays([ctx EXCEPT !.results = <<>>], 0, nDays, parts, lunch, dur, clock)
    IN  [c1 EXCEPT !.results = Slice(SortByScore(@), maxN)]

(* ------------------------------ rendering ------------------------------ *)
renderHeatmap(ctx, parts, lunch, viewDay, clock) ==
    IF parts = <<>> THEN ctx
    ELSE calculateSlotAvailability(ctx, BaseDate(clock, viewDay), parts, lunch)

calculateAndRenderSuggestions(ctx, parts, lunch, dur, nDays, maxN, clock) ==
    IF parts = <<>> THEN [ctx EXCEPT !.results = <<>>]
    ELSE calculateBestTimes(ctx, parts, lunch, dur, nDays, maxN, clock)

\* The statistics panel before any score is shown ('—').
NoScore == 0 - 1

\* Math.ceil(n * 0.8)
GoldenThreshold(n) == (4 * n + 4) \div 5

\* Math.round(num / den) for num >= 0, den > 0
RoundRatio(num, den) == (2 * num + den) \div (2 * den)

RECURSIVE TotalCount(_, _)
\* slots.reduce((sum, slot) => sum + slot.count, 0) over slots 0 .. i
TotalCount(slots, i) ==
    IF i < 0 THEN 0 ELSE slots[i].count + TotalCount(slots, i - 1)

\* slots.filter(s => s.count >= goldenThreshold).length
GoldenSlots(slots, n) ==
    Cardinality({i \in DOMAIN slots : slots[i].count >= GoldenThreshold(n)})

\* Math.round(avgScore + goldenScore), with
\* avgScore = total / 48 / n * 60 and goldenScore = golden / 48 * 40
CompatibilityScore(slots, n) ==
    RoundRatio(AverageWeight * TotalCount(slots, SlotsPerDay - 1)
                 + GoldenWeight * n * GoldenSlots(slots, n),
               SlotsPerDay * n)

\* The score taken from the grid the slot lookup left in c1.
Compatibility(c1, parts, clock) ==
    [c1 EXCEPT !.score =
        CompatibilityScore(c1.cache[CacheKey(BaseDate(clock, 0), parts)], Len(parts))]

\* The score computed from the grid however short the list.
CompatibilityOfAnyList(ctx, parts, lunch, clock) ==
    Compatibility(calculateSlotAvailability(ctx, BaseDate(clock, 0), parts, lunch),
                  parts, clock)

\* calculateTimezoneCompatibility() on ctx: the score is left in ctx.score.
calculateTimezoneCompatibility(ctx, parts, lunch, clock) ==
    IF Len(parts) < 2 THEN [ctx EXCEPT !.score = 0]
    ELSE Compatibility(calculateSlotAvailability(ctx, BaseDate(clock, 0), parts, lunch),
                       parts, clock)

updateStats(ctx, parts, lunch, clock) ==
    IF parts = <<>> THEN [ctx EXCEPT !.score = NoScore]
    ELSE calculateTimezoneCompatibility(ctx, parts, lunch, clock)

(* ------------------------------ analytics ------------------------------ *)
\* The slots of the UTC day in which both are inside their own window; a
\* failed projection counts no slot.
OverlapSlots(p1, p2, utcDay) ==
    Cardinality({i \in 0 .. SlotsPerDay - 1 :
        /\ p1.timezone \in Zones
        /\ p2.timezone \in Zones
        /\ isInRange(LocalMinutes(p1.timezone, utcDay * DayMinutes + i * SlotMinutes),
                     parseTime(p1.start), parseTime(p1.end))
        /\ isInRange(LocalMinutes(p2.timezone, utcDay * DayMinutes + i * SlotMinutes),
                     parseTime(p2.start), parseTime(p2.end))})

\* Math.round((overlapSlots * 0.5) * 10) / 10, in tenths of an hour.
calculatePairOverlap(p1, p2, clock) == OverlapSlots(p1, p2, UtcDate(clock)) * 5

\* The inner loop for one i, from j on: what each j pushes.
PushedInRow(i, j, parts, clock) ==
    SelectSeq([k \in 1 .. Len(parts) - j + 1 |->
                 PairIfWorse(i, j + k - 1, parts, clock,
                             calculatePairOverlap(parts[i], parts[j + k - 1], clock))],
              LAMBDA pushed : pushed # <<>>)

RowFrom(pushed) == [k \in DOMAIN pushed |-> pushed[k][1]]

RECURSIVE PairsFrom(_, _, _, _)
\* The loops over i < j from (i, j) on: the pairs with overlap < 3, in loop
\* order.
PairsFrom(i, j, parts, clock) ==
    IF i > Len(parts) THEN <<>>
    ELSE RowFrom(PushedInRow(i, j, parts, clock))
           \o PairsFrom(i + 1, i + 2, parts, clock)

RECURSIVE SortByOverlap(_)

\* The pairs left in the order the loops pushed them.
LoopOrder(pairs) == pairs

\* The pairs of overlap least, in their order, ahead of the rest sorted.
LeastFirst(pairs, least) ==
    SelectSeq(pairs, LAMBDA r : r.overlap = least)
      \o SortByOverlap(SelectSeq(pairs, LAMBDA r : r.overlap # least))

\* pairs.sort((a, b) => a.overlap - b.overlap): ascending, equal overlaps
\* keep their order.
SortByOverlap(pairs) ==
    IF pairs = <<>> THEN <<>>
    ELSE LeastFirst(pairs, LeastOverlap({pairs[k].overlap : k \in DOMAIN pairs}))

findWorstTimezonePairs(parts, clock) ==
    IF Len(parts) < 2 THEN <<>>
    ELSE Slice(SortByOverlap(PairsFrom(1, 2, parts, clock)), WorstPairLimit)

RECURSIVE GridPairsFrom(_, _, _, _, _)
\* The pair loops with the overlap counted off the participant lists of the
\* grid's slots.
GridPairsFrom(i, j, parts, clock, slots) ==
    IF i > Len(parts) THEN <<>>
    ELSE IF j > Len(parts) THEN GridPairsFrom(i + 1, i + 2, parts, clock, slots)
    ELSE PairIfWorse(i, j, parts, clock,
                     5 * Cardinality({k \in DOMAIN slots :
                           \E a, b \in DOMAIN slots[k].participants :
                               /\ slots[k].participants[a].name = parts[i].name
                               /\ slots[k].participants[b].name = parts[j].name}))
           \o GridPairsFrom(i, j + 1, parts, clock, slots)

\* The pairs taken from the grid the slot lookup left in c1.
WithPairsFromGrid(c1, parts, clock) ==
    [c1 EXCEPT !.pairs =
        Slice(SortByOverlap(GridPairsFrom(1, 2, parts, clock,
                                c1.cache[CacheKey(BaseDate(clock, 0), parts)])),
              WorstPairLimit)]

\* The pairs renderAnalytics() shows next to the score.
WithPairs(c1, parts, clock) ==
    [c1 EXCEPT !.pairs = findWorstTimezonePairs(parts, clock)]

renderAnalytics(ctx, parts, lunch, clock) ==
    IF Len(parts) < 2 THEN [ctx EXCEPT !.pairs = <<>>]
    ELSE WithPairs(calculateTimezoneCompatibility(ctx, parts, lunch, clock),
                   parts, clock)

\* render(): heatmap, suggestions, stats, analytics, in that order.
render(c, parts, lunch, dur, nDays, maxN, viewDay, clock) ==
    LET c0 == [cache |-> c, calls |-> <<>>, results |-> <<>>,
               score |-> NoScore, pairs |-> <<>>]
        c1 == renderHeatmap(c0, parts, lunch, viewDay, clock)
        c2 == calculateAndRenderSuggestions(c1, parts, lunch, dur, nDays, maxN, clock)
        c3 == updateStats(c2, parts, lunch, clock)
    IN  renderAnalytics(c3, parts, lunch, clock)

(* --------------------------- participant cards ------------------------- *)
\* getTimezoneOffset(tz): the zone's offset now, 0 when it cannot be read.
getTimezoneOffset(tz, clock) ==
    IF tz \in Zones THEN TzOffsetAt(tz, clock) ELSE 0

\* name or timezone includes the search term; the terms drawn are whole
\* timezone names that are part of no other name or timezone.
MatchesSearch(p, term) == term = "" \/ p.timezone = term \/ p.name = term

RECURSIVE SortByOffset(_, _)

\* The participants of offset least, in their order, ahead of the rest sorted.
WestFirst(parts, clock, least) ==
    SelectSeq(parts, LAMBDA p : getTimezoneOffset(p.timezone, clock) = least)
      \o SortByOffset(SelectSeq(parts,
                                LAMBDA p : getTimezoneOffset(p.timezone, clock) # least),
                      clock)

\* [...filtered].sort((a, b) => offsetA - offsetB)
SortByOffset(parts, clock) ==
    IF parts = <<>> THEN <<>>
    ELSE WestFirst(parts, clock,
                   LeastOverlap({getTimezoneOffset(parts[k].timezone, clock) :
                                    k \in DOMAIN parts}))

\* The data-id of the cards of a sorted list.
CardIds(sorted) == [k \in DOMAIN sorted |-> sorted[k].id]

\* renderParticipants(): a card for every participant the search term lets
\* through, sorted by offset.
renderParticipants(parts, term, clock) ==
    CardIds(SortByOffset(SelectSeq(parts, LAMBDA p : MatchesSearch(p, term)), clock))

(* -------------------------------- state -------------------------------- *)
VARIABLES
    participants,     \* state.participants
    cache,            \* state.cache: cache key -> grid
    excludeLunch,     \* state.excludeLunch
    duration,         \* state.duration
    days,             \* state.days
    maxSuggestions,   \* state.maxSuggestions
    currentViewDay,   \* state.currentViewDay
    past,             \* history.past
    future,           \* history.future
    suggestions,      \* the list calculateBestTimes() returned last
    now,              \* the wall clock, new Date()
    nextId,           \* the next identifier uid() returns
    calls,            \* the calculateSlotAvailability calls of the last handler
    op,               \* the last handler run
    rangeCheck,       \* the last isInRange call: its arguments and result
    compatibility,    \* the score calculateTimezoneCompatibility() returned last
    worstPairs,       \* the list findWorstTimezonePairs() returned last
    searchTerm,       \* state.searchTerm
    cards,            \* the data-id of the participant cards, in document order
    before            \* the list as the last list handler found it, and for an
                      \* undo the handler that had run just before it

vars == <<participants, cache, excludeLunch, duration, days, maxSuggestions,
          currentViewDay, past, future, suggestions, now, nextId, calls, op,
          rangeCheck, compatibility, worstPairs, searchTerm, cards, before>>

settings == <<excludeLunch, duration, days, maxSuggestions, currentViewDay>>

Ids(parts) == {parts[k].id : k \in DOMAIN parts}

(* ------------------------------- inputs -------------------------------- *)
\* What the add and edit forms are filled with.
Forms ==
    { [name |-> "Ann", timezone |-> "UTC",
       start |-> <<9, 0>>, end |-> <<17, 0>>, priority |-> "required"],
      [name |-> "Bob", timezone |-> "Asia/Kolkata",
       start |-> <<22, 0>>, end |-> <<6, 0>>, priority |-> "optional"] }

\* The participant lists a share link may carry (init() takes the decoded
\* list as it is): the third record has no priority field.
SharedRoster ==
    << [id |-> 11, name |-> "Ann", timezone |-> "UTC",
        start |-> <<9, 0>>, end |-> <<17, 0>>,
        priority |-> "required", color |-> 0],
       [id |-> 12, name |-> "Bob", timezone |-> "Asia/Kolkata",
        start |-> <<22, 0>>, end |-> <<6, 0>>,
        priority |-> "optional", color |-> 1],
       [id |-> 13, name |-> "Cy", timezone |-> "America/New_York",
        start |-> <<11, 30>>, end |-> <<13, 30>>,
        priority |-> NoPriority, color |-> 2] >>

SharedLists == { SubSeq(SharedRoster, 1, 2), SubSeq(SharedRoster, 1, 3) }

\* What the duration and max-suggestions inputs are set to.
Durations == {30, 45}

SuggestionLimits == {1, DefaultMaxSuggestions}

NewParticipant(id, f, index) ==
    [id |-> id, name |-> f.name, timezone |-> f.timezone, start |-> f.start,
     end |-> f.end, priority |-> f.priority, color |-> generateColor(index)]

(* ------------------------------- history ------------------------------- *)
\* history.push(action): the new history.past
HistoryPush(action) ==
    LET pushed == Append(past, action)
    IN  IF Len(pushed) > HistoryMaxSize THEN Tail(pushed) ELSE pushed

\* Array.prototype.splice(index, 0, item)
SpliceInsert(seq, index, item) ==
    LET at == Min(index, Len(seq))
    IN  SubSeq(seq, 1, at) \o <<item>> \o SubSeq(seq, at + 1, Len(seq))

\* Array.prototype.splice(index, 1)
SpliceRemove(seq, index) ==
    IF index >= Len(seq) THEN seq
    ELSE SubSeq(seq, 1, index) \o SubSeq(seq, index + 2, Len(seq))

\* participants.filter(p => p.id !== id)
WithoutId(parts, id) == SelectSeq(parts, LAMBDA p : p.id # id)

\* The participant left as it is.
AssignNothing(parts, id, fields) == parts

\* Object.assign(p, fields) on the first participant with that id
AssignById(parts, id, fields) ==
    IF id \in Ids(parts)
    THEN LET k == CHOOSE j \in DOMAIN parts :
                     parts[j].id = id /\ \A m \in 1 .. j - 1 : parts[m].id # id
         IN  [parts EXCEPT ![k] = fields]
    ELSE parts

(* ------------------------------- handlers ------------------------------ *)
\* The state left by render() after the list became parts and the cache c.
Left(r, parts, lunch, name) ==
    /\ participants' = parts
    /\ excludeLunch' = lunch
    /\ cache' = r.cache
    /\ calls' = r.calls
    /\ suggestions' = r.results
    /\ compatibility' = r.score
    /\ worstPairs' = r.pairs
    /\ cards' = renderParticipants(parts, searchTerm, now)
    /\ searchTerm' = searchTerm
    /\ op' = name

Rendered(c, parts, lunch, name) ==
    Left(render(c, parts, lunch, duration, days, maxSuggestions,
                currentViewDay, now),
         parts, lunch, name)

Init ==
    /\ participants = <<>>
    /\ cache = <<>>
    /\ excludeLunch = FALSE
    /\ duration = DefaultDuration
    /\ days = DefaultDays
    /\ maxSuggestions = DefaultMaxSuggestions
    /\ currentViewDay = 0
    /\ past = <<>>
    /\ future = <<>>
    /\ suggestions = <<>>
    /\ now = NowStart
    /\ nextId = 1
    /\ calls = <<>>
    /\ op = "init"
    /\ rangeCheck = <<>>
    /\ compatibility = NoScore
    /\ worstPairs = <<>>
    /\ searchTerm = ""
    /\ cards = <<>>
    /\ before = [list |-> <<>>, op |-> ""]

addParticipant(f) ==
    /\ Len(past) < MaxHistory
    /\ Len(participants) < ParticipantLimit
    /\ nextId <= MaxIds
    /\ LET participant == NewParticipant(nextId, f, Len(participants))
       IN  /\ past' = HistoryPush([type |-> "add", participant |-> participant])
           /\ future' = <<>>
           /\ Rendered(cache, Append(participants, participant), excludeLunch,
                       "addParticipant")
    /\ nextId' = nextId + 1
    /\ before' = [list |-> participants, op |-> ""]
    /\ UNCHANGED <<rangeCheck, duration, days, maxSuggestions, currentViewDay, now>>

removeParticipant(id) ==
    /\ Len(past) < MaxHistory
    /\ id \in Ids(participants)
    /\ LET k == CHOOSE j \in DOMAIN participants :
                   participants[j].id = id
                   /\ \A m \in 1 .. j - 1 : participants[m].id # id
       IN  past' = HistoryPush([type |-> "remove",
                                participant |-> participants[k],
                                index |-> k - 1])
    /\ future' = <<>>
    /\ Rendered(cache, WithoutId(participants, id), excludeLunch,
                "removeParticipant")
    /\ before' = [list |-> participants, op |-> ""]
    /\ UNCHANGED <<rangeCheck, duration, days, maxSuggestions, currentViewDay, now, nextId>>

\* editParticipant(id) opens the form on a listed participant; saveEdit()
\* writes the form's fields into it.
saveEdit(id, f) ==
    /\ Len(past) < MaxHistory
    /\ id \in Ids(participants)
    /\ LET k == CHOOSE j \in DOMAIN participants :
                   participants[j].id = id
                   /\ \A m \in 1 .. j - 1 : participants[m].id # id
           oldParticipant == participants[k]
           edited == [oldParticipant EXCEPT
                        !.name = f.name, !.timezone = f.timezone,
                        !.start = f.start, !.end = f.end,
                        !.priority = f.priority]
       IN  /\ past' = HistoryPush([type |-> "edit", id |-> id,
                                   oldParticipant |-> oldParticipant,
                                   newParticipant |-> edited])
           /\ future' = <<>>
           /\ Rendered(cache, [participants EXCEPT ![k] = edited], excludeLunch,
                       "saveEdit")
    /\ before' = [list |-> participants, op |-> ""]
    /\ UNCHANGED <<rangeCheck, duration, days, maxSuggestions, currentViewDay, now, nextId>>

performUndo ==
    /\ past # <<>>
    /\ LET action == past[Len(past)]
           parts ==
             CASE action.type = "add" ->
                    WithoutId(participants, action.participant.id)
               [] action.type = "remove" ->
                    SpliceInsert(participants, action.index, action.participant)
               [] action.type = "edit" ->
                    AssignById(participants, action.id, action.oldParticipant)
       IN  /\ past' = SubSeq(past, 1, Len(past) - 1)
           /\ future' = Append(future, action)
           /\ Rendered(cache, parts, excludeLunch, "performUndo")
    /\ before' = [list |-> participants, op |-> op]
    /\ UNCHANGED <<rangeCheck, duration, days, maxSuggestions, currentViewDay, now, nextId>>

performRedo ==
    /\ future # <<>>
    /\ LET action == future[Len(future)]
           parts ==
             CASE action.type = "add" ->
                    Append(participants, action.participant)
               [] action.type = "remove" ->
                    SpliceRemove(participants, action.index)
               [] action.type = "edit" ->
                    AssignById(participants, action.id, action.newParticipant)
       IN  /\ future' = SubSeq(future, 1, Len(future) - 1)
           /\ past' = Append(past, action)
           /\ Rendered(cache, parts, excludeLunch, "performRedo")
    /\ before' = [list |-> participants, op |-> ""]
    /\ UNCHANGED <<rangeCheck, duration, days, maxSuggestions, currentViewDay, now, nextId>>

\* The 'change' handler of the exclude-lunch checkbox.
excludeLunchChange ==
    /\ Rendered(cache, participants, ~excludeLunch, "excludeLunchChange")
    /\ UNCHANGED <<rangeCheck, duration, days, maxSuggestions, currentViewDay, now, nextId,
                   past, future, before>>

\* The 'click' handler of the refresh button.
refreshSuggestions ==
    /\ LET r == calculateAndRenderSuggestions(
                  [cache |-> <<>>, calls |-> <<>>, results |-> <<>>],
                  participants, excludeLunch, duration, days, maxSuggestions, now)
       IN  /\ cache' = r.cache
           /\ calls' = r.calls
           /\ suggestions' = r.results
    /\ op' = "refreshSuggestions"
    /\ UNCHANGED <<rangeCheck, compatibility, worstPairs, participants, settings,
                   now, nextId, past, future, searchTerm, cards, before>>

\* Time passes between two handlers.
Tick ==
    /\ now < NowStart + MaxTicks * ClockStep
    /\ now' = now + ClockStep
    /\ calls' = <<>>
    /\ op' = "tick"
    /\ UNCHANGED <<rangeCheck, compatibility, worstPairs, participants, cache,
                   settings, past, future, suggestions, nextId, searchTerm, cards, before>>

\* The 'change' handlers of the duration, days and max-suggestions inputs.
Suggested(r, dur, nDays, maxN, name) ==
    /\ duration' = dur
    /\ days' = nDays
    /\ maxSuggestions' = maxN
    /\ cache' = r.cache
    /\ calls' = r.calls
    /\ suggestions' = r.results
    /\ op' = name
    /\ UNCHANGED <<rangeCheck, compatibility, worstPairs, participants,
                   excludeLunch, currentViewDay, now, nextId, past, future,
                   searchTerm, cards, before>>

Recalculated(dur, nDays, maxN, name) ==
    Suggested(calculateAndRenderSuggestions(
                 [cache |-> cache, calls |-> <<>>, results |-> <<>>],
                 participants, excludeLunch, dur, nDays, maxN, now),
              dur, nDays, maxN, name)

durationChange(dur) == Recalculated(dur, days, maxSuggestions, "durationChange")

daysChange(nDays) == Recalculated(duration, nDays, maxSuggestions, "daysChange")

maxSuggestionsChange(maxN) ==
    Recalculated(duration, days, maxN, "maxSuggestionsChange")

\* init() with a share link in the URL: the decoded list, then render().
\* What the first render() of init() leaves.
FirstRender(r) ==
    /\ cache = r.cache
    /\ calls = r.calls
    /\ suggestions = r.results
    /\ compatibility = r.score
    /\ worstPairs = r.pairs

\* init() once state.participants holds the list of the share link.
Loaded ==
    /\ excludeLunch = FALSE
    /\ duration = DefaultDuration
    /\ days = DefaultDays
    /\ maxSuggestions = DefaultMaxSuggestions
    /\ currentViewDay = 0
    /\ past = <<>>
    /\ future = <<>>
    /\ now = NowStart
    /\ nextId = 1
    /\ FirstRender(render(<<>>, participants, excludeLunch, duration, days,
                          maxSuggestions, currentViewDay, now))
    /\ op = "init"
    /\ rangeCheck = <<>>
    /\ searchTerm = ""
    /\ cards = renderParticipants(participants, searchTerm, now)
    /\ before = [list |-> <<>>, op |-> ""]

InitShared ==
    /\ participants \in SharedLists
    /\ Loaded

\* The participant list and the cache under the handlers that change them.
Next ==
    \/ \E f \in Forms : addParticipant(f)
    \/ \E id \in Ids(participants) : removeParticipant(id)
    \/ \E id \in Ids(participants), f \in Forms : saveEdit(id, f)
    \/ excludeLunchChange
    \/ refreshSuggestions
    \/ Tick

Spec == Init /\ [][Next]_vars

\* The ranker on a shared list under the settings handlers.
NextRank ==
    \/ \E dur \in Durations : durationChange(dur)
    \/ \E nDays \in 1 .. MaxDays : daysChange(nDays)
    \/ \E maxN \in SuggestionLimits : maxSuggestionsChange(maxN)
    \/ excludeLunchChange
    \/ refreshSuggestions

SpecRank == InitShared /\ [][NextRank]_vars

\* Share links with lists the forms would not produce: a half-hour window, a
\* timezone the platform does not know, a time string out of range, and
\* lists long enough for several pairs.
Dee == [id |-> 21, name |-> "Dee", timezone |-> "UTC",
        start |-> <<9, 0>>, end |-> <<9, 30>>,
        priority |-> "required", color |-> 3]

Eve == [id |-> 22, name |-> "Eve", timezone |-> "Mars/Olympus",
        start |-> <<9, 0>>, end |-> <<17, 0>>,
        priority |-> "required", color |-> 4]

Zed == [id |-> 23, name |-> "Zed", timezone |-> "UTC",
        start |-> <<25, 99>>, end |-> <<26, 10>>,
        priority |-> "optional", color |-> 5]

Fay == [id |-> 24, name |-> "Fay", timezone |-> "UTC",
        start |-> <<8, 0>>, end |-> <<16, 0>>,
        priority |-> "optional", color |-> 6]

\* The first two participants of the demo data, on their own.
Alice == [id |-> 41, name |-> "Alice (NYC)", timezone |-> "America/New_York",
          start |-> <<9, 0>>, end |-> <<17, 0>>,
          priority |-> "required", color |-> 0]

BobLondon == [id |-> 42, name |-> "Bob (London)", timezone |-> "Europe/London",
              start |-> <<8, 30>>, end |-> <<16, 30>>,
              priority |-> "required", color |-> 1]

DemoPair == <<Alice, BobLondon>>

\* Two participants entered under one name, with windows far apart.
Namesakes ==
    <<[id |-> 43, name |-> "Sam", timezone |-> "UTC",
       start |-> <<9, 0>>, end |-> <<17, 0>>, priority |-> "required", color |-> 0],
      [id |-> 44, name |-> "Sam", timezone |-> "Asia/Kolkata",
       start |-> <<22, 0>>, end |-> <<6, 0>>, priority |-> "optional", color |-> 1]>>

InitDemo ==
    /\ participants \in {DemoPair, Namesakes}
    /\ Loaded

NextDemo ==
    \/ \E dur \in Durations \cup {DefaultDuration} : durationChange(dur)
    \/ \E maxN \in SuggestionLimits : maxSuggestionsChange(maxN)
    \/ excludeLunchChange
    \/ refreshSuggestions

SpecDemo == InitDemo /\ [][NextDemo]_vars

BoardLists ==
    { <<Dee>>,
      <<SharedRoster[1], Eve, SharedRoster[2]>>,
      <<SharedRoster[1], Zed>>,
      <<SharedRoster[1], Fay, SharedRoster[2]>>,
      SharedRoster \o <<Dee>> }

\* Durations up to and past the length of the day.
BoardDurations == {30, 90, 1440, 1470}

InitBoard ==
    /\ participants \in BoardLists
    /\ Loaded

NextBoard ==
    \/ \E dur \in BoardDurations : durationChange(dur)
    \/ \E maxN \in SuggestionLimits : maxSuggestionsChange(maxN)
    \/ excludeLunchChange
    \/ refreshSuggestions

SpecBoard == InitBoard /\ [][NextBoard]_vars

\* A shared list joined by further participants: the list holds one whose
\* window is the lunch hour, and the add form may also be filled with an
\* optional participant working through the evening.
Lun == [id |-> 31, name |-> "Lun", timezone |-> "America/New_York",
        start |-> <<12, 0>>, end |-> <<13, 0>>,
        priority |-> "required", color |-> 7]

JoinLists == { <<Lun>>, <<Lun, SharedRoster[1]>> }

JoinForms ==
    Forms \cup { [name |-> "Gus", timezone |-> "Asia/Kolkata",
                   start |-> <<21, 0>>, end |-> <<6, 0>>, priority |-> "optional"] }

InitJoin ==
    /\ participants \in JoinLists
    /\ Loaded

NextJoin ==
    \/ \E f \in JoinForms : addParticipant(f)
    \/ excludeLunchChange
    \/ refreshSuggestions

SpecJoin == InitJoin /\ [][NextJoin]_vars

\* The core functions called directly, whatever the list holds: the ranker,
\* the compatibility score and the worst pairs, one after the other.
\* The same, with the list handed back in reverse order.
CoreLeftReversed(c2, pairs) ==
    /\ participants' = [k \in DOMAIN participants |->
                           participants[Len(participants) + 1 - k]]
    /\ cache' = c2.cache
    /\ calls' = c2.calls
    /\ suggestions' = c2.results
    /\ compatibility' = c2.score
    /\ worstPairs' = pairs
    /\ op' = "callCoreFunctions"
    /\ UNCHANGED <<rangeCheck, settings, now, nextId, past, future, searchTerm, cards, before>>

CoreLeft(c2, pairs) ==
    /\ cache' = c2.cache
    /\ calls' = c2.calls
    /\ suggestions' = c2.results
    /\ compatibility' = c2.score
    /\ worstPairs' = pairs
    /\ op' = "callCoreFunctions"
    /\ UNCHANGED <<rangeCheck, participants, settings, now, nextId, past, future,
                   searchTerm, cards, before>>

callCoreFunctions ==
    CoreLeft(calculateTimezoneCompatibility(
                 calculateBestTimes([cache |-> cache, calls |-> <<>>, results |-> <<>>,
                                     score |-> NoScore, pairs |-> <<>>],
                                    participants, excludeLunch, duration, days,
                                    maxSuggestions, now),
                 participants, excludeLunch, now),
             findWorstTimezonePairs(participants, now))

\* The empty list with the settings the selects were left at: their handlers
\* compute nothing while the list is empty.
InitCore ==
    /\ participants = <<>>
    /\ cache = <<>>
    /\ excludeLunch = FALSE
    /\ duration \in Durations \cup {DefaultDuration}
    /\ days \in 1 .. MaxDays
    /\ maxSuggestions \in SuggestionLimits
    /\ currentViewDay = 0
    /\ past = <<>>
    /\ future = <<>>
    /\ suggestions = <<>>
    /\ now = NowStart
    /\ nextId = 1
    /\ calls = <<>>
    /\ op = "settingsChange"
    /\ rangeCheck = <<>>
    /\ compatibility = NoScore
    /\ worstPairs = <<>>
    /\ searchTerm = ""
    /\ cards = <<>>
    /\ before = [list |-> <<>>, op |-> ""]

NextCore ==
    \/ \E f \in Forms : addParticipant(f)
    \/ \E id \in Ids(participants) : removeParticipant(id)
    \/ callCoreFunctions

SpecCore == InitCore /\ [][NextCore]_vars

\* The 'input' handler of the search box.
SearchTerms == {"", "UTC", "Asia/Kolkata"}

searchInput(term) ==
    /\ searchTerm' = term
    /\ cards' = renderParticipants(participants, term, now)
    /\ op' = "searchInput"
    /\ UNCHANGED <<participants, cache, settings, past, future, suggestions, now,
                   nextId, calls, rangeCheck, compatibility, worstPairs, before>>

\* dragover: the dragged card taken out and put back in front of position to.
MoveCard(order, from, to) ==
    SpliceInsert(SpliceRemove(order, from - 1), to - 1, order[from])

\* newOrder.map(id => state.participants.find(p => p.id === id)).filter(Boolean)
Reordered(parts, newOrder) ==
    [k \in DOMAIN SelectSeq(newOrder, LAMBDA id : id \in Ids(parts)) |->
        parts[CHOOSE j \in DOMAIN parts :
                 /\ parts[j].id = SelectSeq(newOrder, LAMBDA id : id \in Ids(parts))[k]
                 /\ \A m \in 1 .. j - 1 : parts[m].id # parts[j].id]]

\* A card dragged from one position to another and dropped: the 'drop'
\* handler reads the order of the cards back into state.participants.
Dropped(newOrder) ==
    /\ cards' = newOrder
    /\ participants' = Reordered(participants, newOrder)
    /\ op' = "drop"
    /\ UNCHANGED <<cache, settings, past, future, suggestions, now, nextId, calls,
                   rangeCheck, compatibility, worstPairs, searchTerm, before>>

dragAndDrop(from, to) ==
    /\ from \in DOMAIN cards
    /\ to \in DOMAIN cards
    /\ Dropped(MoveCard(cards, from, to))

NextDrag ==
    \/ \E term \in SearchTerms : searchInput(term)
    \/ \E from, to \in 1 .. Len(participants) : dragAndDrop(from, to)
    \/ \E id \in Ids(participants) : removeParticipant(id)

SpecDrag == InitShared /\ [][NextDrag]_vars

\* The list handlers with undo and redo.
NextUndo ==
    \/ \E f \in Forms : addParticipant(f)
    \/ \E id \in Ids(participants) : removeParticipant(id)
    \/ \E id \in Ids(participants), f \in Forms : saveEdit(id, f)
    \/ performUndo
    \/ performRedo

SpecUndo == Init /\ [][NextUndo]_vars

\* A shared list of two reordered by hand between removals, undo and redo.
InitPair ==
    /\ participants = SubSeq(SharedRoster, 1, 2)
    /\ Loaded

NextRedoing ==
    \/ \E id \in Ids(participants) : removeParticipant(id)
    \/ performUndo
    \/ performRedo
    \/ \E from, to \in 1 .. Len(participants) : dragAndDrop(from, to)

SpecRedoing == InitPair /\ [][NextRedoing]_vars

\* The timezones of the TIMEZONES list the model uses.
TIMEZONES == Zones

\* validateParticipant(name, timezone, start, end): the errors found.
validateParticipant(name, timezone, start, end) ==
    (IF name = "" THEN {"Name is required"} ELSE {})
    \cup (IF timezone \notin TIMEZONES THEN {"Please select a valid timezone"}
          ELSE {})
    \cup (IF parseTime(start) = parseTime(end)
          THEN {"Start and end times cannot be the same"} ELSE {})

\* The quick add button: a random name and a random timezone of TIMEZONES.
QuickNames == {"Sam7"}
QuickZones == {"UTC"}

quickAdd(name, tz) ==
    /\ Len(participants) < MaxCrowd
    /\ Rendered(cache,
                Append(participants,
                       NewParticipant(nextId,
                                      [name |-> name, timezone |-> tz,
                                       start |-> <<9, 0>>, end |-> <<17, 0>>,
                                       priority |-> "required"],
                                      Len(participants))),
                excludeLunch, "quickAdd")
    /\ nextId' = nextId + 1
    /\ UNCHANGED <<rangeCheck, duration, days, maxSuggestions, currentViewDay, now,
                   past, future, before>>

\* The texts pasted into the bulk import: ImportLines lines that pass and a
\* last one with a timezone TIMEZONES does not list.
ImportTexts ==
    { [k \in 1 .. ImportLines + 1 |->
         [name |-> "Kim",
          timezone |-> IF k <= ImportLines THEN "UTC" ELSE "Mars/Olympus",
          start |-> <<9, 0>>, end |-> <<17, 0>>, priority |-> "required"]] }

\* lines.forEach(...) of bulkImport(): the list after the lines were read,
\* the first new participant getting the id uid.
RECURSIVE ImportInto(_, _, _)
ImportInto(parts, lines, uid) ==
    IF lines = <<>> THEN parts
    ELSE LET line == Head(lines)
         IN  IF /\ validateParticipant(line.name, line.timezone,
                                       line.start, line.end) = {}
                /\ line.timezone \in TIMEZONES
             THEN ImportInto(Append(parts, NewParticipant(uid, line, Len(parts))),
                             Tail(lines), uid + 1)
             ELSE ImportInto(parts, Tail(lines), uid)

bulkImport(lines) ==
    /\ Len(participants) + Len(lines) <= MaxCrowd + 1
    /\ LET parts == ImportInto(participants, lines, nextId)
           imported == Len(parts) - Len(participants)
       IN  /\ imported > 0
           /\ Rendered(cache, parts, excludeLunch, "bulkImport")
           /\ nextId' = nextId + imported
    /\ UNCHANGED <<rangeCheck, duration, days, maxSuggestions, currentViewDay, now,
                   past, future, before>>

\* A share link that carries one participant less than addParticipant()
\* allows.
Crowd ==
    [k \in 1 .. ParticipantLimit - 1 |->
       [id |-> 100 + k, name |-> "Kim", timezone |-> "UTC",
        start |-> <<9, 0>>, end |-> <<17, 0>>,
        priority |-> "required", color |-> generateColor(k - 1)]]

InitCrowd ==
    /\ participants = Crowd
    /\ Loaded

\* The handlers that add participants, with undo and redo.
NextCrowd ==
    \/ \E f \in Forms : addParticipant(f)
    \/ \E name \in QuickNames, tz \in QuickZones : quickAdd(name, tz)
    \/ \E lines \in ImportTexts : bulkImport(lines)
    \/ performUndo
    \/ performRedo

SpecCrowd == InitCrowd /\ [][NextCrowd]_vars

\* isInRange on its own, on minutes of the day around the edges of a window.
RangeMinutes == {0, 30, 359, 360, 420, 720, 1319, 1320, 1350, 1439}

callIsInRange(minutes, start, end) ==
    /\ rangeCheck' = [minutes |-> minutes, start |-> start, end |-> end,
                      inside |-> isInRange(minutes, start, end)]
    /\ UNCHANGED <<participants, cache, settings, past, future, suggestions,
                   now, nextId, calls, op, compatibility, worstPairs, searchTerm, cards, before>>

NextRange == \E minutes \in RangeMinutes, start \in RangeMinutes, end \in RangeMinutes :
                callIsInRange(minutes, start, end)

SpecRange == Init /\ [][NextRange]_vars

(* ----------------------------- observations ---------------------------- *)
\* The names listed in a slot, in listing order and as a set.
SlotNames(slot) == [k \in DOMAIN slot.participants |-> slot.participants[k].name]

NameSet(slot) == {slot.participants[k].name : k \in DOMAIN slot.participants}

NamesOf(parts) == [k \in DOMAIN parts |-> parts[k].name]

\* "HH:MM" as a minute of the day.
MinuteOfDay(t) == 60 * t[1] + t[2]

\* m lies in [s, e) read clockwise on the circle of the day's minutes.
OnCircle(m, s, e) ==
    (m - s + DayMinutes) % DayMinutes < (e - s + DayMinutes) % DayMinutes

\* The participant's wall clock at a UTC instant, as a minute of the day.
LocalMinuteAt(p, instant) ==
    (instant + TzOffsetAt(p.timezone, instant)) % DayMinutes

InWindowAt(p, instant) ==
    OnCircle(LocalMinuteAt(p, instant), MinuteOfDay(p.start), MinuteOfDay(p.end))

InLunchAt(p, instant) == LocalMinuteAt(p, instant) \in 720 .. 779

\* The UTC instant slot i of a call's grid stands for.
SlotInstant(call, i) == call.utcDay * DayMinutes + i * SlotMinutes

\* The grid the ranker read for suggestion s, and the slots of its window.
SuggestionGrid(s) == cache[CacheKey(BaseDate(now, s.day), participants)]

WindowSlots(s) ==
    LET i == (s.start - UtcDate(BaseDate(now, s.day)) * DayMinutes) \div SlotMinutes
    IN  i .. i + SlotsNeeded(duration) - 1

RECURSIVE SumCounts(_, _)
SumCounts(slots, window) ==
    IF window = {} THEN 0
    ELSE LET i == CHOOSE j \in window : TRUE
         IN  slots[i].count + SumCounts(slots, window \ {i})

\* The participants with one of the given priorities and a name in the set.
Holding(priorities, names) ==
    {k \in DOMAIN participants :
        participants[k].priority \in priorities /\ participants[k].name \in names}

RECURSIVE CandidatesFrom(_)
\* Every surviving candidate of days day .. days-1, in generation order.
CandidatesFrom(day) ==
    IF day >= days THEN <<>>
    ELSE DayResults(cache[CacheKey(BaseDate(now, day), participants)],
                    participants, SlotsNeeded(duration), BaseDate(now, day), day)
           \o CandidatesFrom(day + 1)

\* a is ranked ahead of b: a higher score, or the same score generated earlier.
Ahead(a, b) ==
    \/ a.score > b.score
    \/ a.score = b.score /\ a.day < b.day
    \/ a.score = b.score /\ a.day = b.day /\ a.start < b.start

ParticipantChanges == {"addParticipant", "removeParticipant", "saveEdit"}

RankerInputs == {"durationChange", "daysChange", "maxSuggestionsChange"}

(* -------------------------------- claims ------------------------------- *)
\* C1: after a participant was added, removed or edited, the next
\* calculateSlotAvailability call misses the cache: the grid it returns was
\* not computed before the change.
C1_ChangeMissesCache ==
    (op \in ParticipantChanges /\ calls # <<>>) => ~calls[1].hit

\* C2: of two consecutive calculateSlotAvailability calls with the same day
\* and the same id list and nothing changed in between (inside one handler,
\* or from one ranker-input handler to the next), the second is served from
\* the cache, unrebuilt, and returns the grid the first returned.
C2_RepeatServedFromCache ==
    [][ /\ \A j \in 2 .. Len(calls') :
              calls'[j].key = calls'[j - 1].key =>
                  /\ calls'[j].hit
                  /\ calls'[j].grid = calls'[j - 1].grid
        /\ ( /\ op' \in RankerInputs
             /\ calls # <<>> /\ calls' # <<>>
             /\ calls'[1].key = calls[Len(calls)].key )
             => /\ calls'[1].hit
                /\ calls'[1].grid = calls[Len(calls)].grid
                /\ calls'[1].grid = cache[calls'[1].key]
      ]_vars

\* A call that built the grid, followed by one with the same key that was
\* served that grid from the cache.
C2_Witness ==
    \E j \in 2 .. Len(calls) :
        /\ calls[j].key = calls[j - 1].key
        /\ ~calls[j - 1].hit
        /\ calls[j].hit
        /\ calls[j].grid = calls[j - 1].grid

\* C3: the available set of every returned suggestion is exactly the set of
\* participants listed in every slot of the suggestion's window.
C3_AvailableInEverySlot ==
    \A k \in DOMAIN suggestions :
        suggestions[k].available =
            {participants[j].name : j \in
                {j \in DOMAIN participants :
                    \A i \in WindowSlots(suggestions[k]) :
                        participants[j].name \in NameSet(SuggestionGrid(suggestions[k])[i])}}

\* C4: isInRange(minute, start, end) is start <= minute < end when
\* start <= end, and minute >= start or minute < end when start > end; for
\* the window 1320..360, minute 1350 is inside and minute 420 is outside.
C4_IsInRange ==
    rangeCheck # <<>> =>
        /\ rangeCheck.inside <=>
              IF rangeCheck.start <= rangeCheck.end
              THEN rangeCheck.start <= rangeCheck.minutes
                     /\ rangeCheck.minutes < rangeCheck.end
              ELSE rangeCheck.minutes >= rangeCheck.start
                     \/ rangeCheck.minutes < rangeCheck.end
        /\ rangeCheck.inside <=>
              OnCircle(rangeCheck.minutes, rangeCheck.start, rangeCheck.end)
        /\ (rangeCheck.start = 1320 /\ rangeCheck.end = 360 /\ rangeCheck.minutes = 1350)
              => rangeCheck.inside
        /\ (rangeCheck.start = 1320 /\ rangeCheck.end = 360 /\ rangeCheck.minutes = 420)
              => ~rangeCheck.inside

\* Minute 1350 was found inside the wrapping window 1320..360.
C4_Witness ==
    /\ rangeCheck # <<>>
    /\ rangeCheck.start = 1320 /\ rangeCheck.end = 360
    /\ rangeCheck.minutes = 1350 /\ rangeCheck.inside

\* C5: in a grid built with excludeLunch off, slot i lists exactly the
\* participants whose local minute at UTC minute i*30 of the grid's day lies
\* in their [start, end) window, wrap-around honoured, and slot.count is the
\* number of participants listed.
C5_FreshGridListsWindow ==
    ~excludeLunch =>
        \A j \in DOMAIN calls : ~calls[j].hit =>
            \A i \in 0 .. SlotsPerDay - 1 :
                /\ SlotNames(calls[j].grid[i]) =
                      NamesOf(SelectSeq(participants,
                                LAMBDA p : InWindowAt(p, SlotInstant(calls[j], i))))
                /\ calls[j].grid[i].count = Len(calls[j].grid[i].participants)

\* A grid built with excludeLunch off lists a participant whose window wraps
\* midnight both late in the local evening and early in the local morning.
C5_Witness ==
    /\ ~excludeLunch
    /\ \E j \in DOMAIN calls, k \in DOMAIN participants :
          /\ ~calls[j].hit
          /\ MinuteOfDay(participants[k].start) > MinuteOfDay(participants[k].end)
          /\ \E i \in 0 .. SlotsPerDay - 1 :
                /\ participants[k].name \in NameSet(calls[j].grid[i])
                /\ LocalMinuteAt(participants[k], SlotInstant(calls[j], i))
                     >= MinuteOfDay(participants[k].start)
          /\ \E i \in 0 .. SlotsPerDay - 1 :
                /\ participants[k].name \in NameSet(calls[j].grid[i])
                /\ LocalMinuteAt(participants[k], SlotInstant(calls[j], i))
                     < MinuteOfDay(participants[k].end)

\* C6: in a grid built with excludeLunch on, a participant whose local minute
\* at the slot's instant is in [720, 780) is neither listed nor counted,
\* inside the window or not; a participant outside that band is listed iff
\* the local minute lies in the window, as with the setting off.
C6_LunchBandExcluded ==
    excludeLunch =>
        \A j \in DOMAIN calls : ~calls[j].hit =>
            \A i \in 0 .. SlotsPerDay - 1 :
                /\ \A k \in DOMAIN participants :
                      IF InLunchAt(participants[k], SlotInstant(calls[j], i))
                      THEN participants[k].name \notin NameSet(calls[j].grid[i])
                      ELSE participants[k].name \in NameSet(calls[j].grid[i])
                             <=> InWindowAt(participants[k], SlotInstant(calls[j], i))
                /\ calls[j].grid[i].count = Cardinality(NameSet(calls[j].grid[i]))

\* A grid built with excludeLunch on has a slot that leaves out a participant
\* at lunch inside the window and lists another who is not at lunch.
C6_Witness ==
    /\ excludeLunch
    /\ \E j \in DOMAIN calls, i \in 0 .. SlotsPerDay - 1 :
          /\ ~calls[j].hit
          /\ \E k \in DOMAIN participants :
                /\ InLunchAt(participants[k], SlotInstant(calls[j], i))
                /\ InWindowAt(participants[k], SlotInstant(calls[j], i))
                /\ participants[k].name \notin NameSet(calls[j].grid[i])
          /\ \E k \in DOMAIN participants :
                /\ ~InLunchAt(participants[k], SlotInstant(calls[j], i))
                /\ participants[k].name \in NameSet(calls[j].grid[i])

\* C7: once the lunch-exclusion setting has changed, every grid served is
\* one built under the new setting.
C7_LunchChangeServesNewGrids ==
    op = "excludeLunchChange" =>
        \A j \in DOMAIN calls :
            \A i \in 0 .. SlotsPerDay - 1 :
                SlotNames(calls[j].grid[i]) =
                    NamesOf(SelectSeq(participants,
                              LAMBDA p :
                                /\ InWindowAt(p, SlotInstant(calls[j], i))
                                /\ ~(excludeLunch
                                       /\ InLunchAt(p, SlotInstant(calls[j], i)))))

\* C8: the score of every returned suggestion is the sum of slot.count over
\* the slots of its window plus 2 for each participant of priority
\* 'required' whose name is in the suggestion's available set.
C8_ScoreIsCountsPlusBonus ==
    \A k \in DOMAIN suggestions :
        suggestions[k].score =
            SumCounts(SuggestionGrid(suggestions[k]), WindowSlots(suggestions[k]))
              + 2 * Cardinality(Holding({"required"}, suggestions[k].available))

\* A suggestion over a window of two slots with a required and an optional
\* participant available.
C8_Witness ==
    \E k \in DOMAIN suggestions :
        /\ SlotsNeeded(duration) = 2
        /\ Holding({"required"}, suggestions[k].available) # {}
        /\ Holding({"optional"}, suggestions[k].available) # {}
        /\ suggestions[k].score >
              SumCounts(SuggestionGrid(suggestions[k]), WindowSlots(suggestions[k]))

\* C9: a participant with no priority field counts as required in the
\* ranker: it earns the 2-point bonus of a 'required' participant, and its
\* localTimes entry carries priority 'required'.
C9_AbsentPriorityIsRequired ==
    \A k \in DOMAIN suggestions :
        /\ suggestions[k].score =
              SumCounts(SuggestionGrid(suggestions[k]), WindowSlots(suggestions[k]))
                + 2 * Cardinality(Holding({"required", NoPriority},
                                          suggestions[k].available))
        /\ \A j \in DOMAIN participants :
              participants[j].priority = NoPriority =>
                  suggestions[k].localTimes[j].priority = "required"

\* The returned list against the list all of surviving candidates.
RankedFirst(all) ==
    /\ Len(suggestions) <= maxSuggestions
    /\ Len(suggestions) = IF Len(all) < maxSuggestions THEN Len(all)
                          ELSE maxSuggestions
    /\ \A k \in DOMAIN suggestions : \E c \in DOMAIN all : all[c] = suggestions[k]
    /\ \A k \in 1 .. Len(suggestions) - 1 : Ahead(suggestions[k], suggestions[k + 1])
    /\ \A c \in DOMAIN all :
          (\A k \in DOMAIN suggestions : suggestions[k] # all[c])
              => \A k \in DOMAIN suggestions : Ahead(suggestions[k], all[c])

\* C10: the returned list is the first maxSuggestions of the surviving
\* candidates in descending score, equal scores in generation order (day,
\* then start index); it never has more than maxSuggestions elements.
C10_TopSuggestionsInOrder == RankedFirst(CandidatesFrom(0))

\* A full list cut from more candidates, holding two of equal score from
\* different days next to each other, the earlier day first.
C10_Witness ==
    /\ Len(suggestions) = maxSuggestions
    /\ Len(CandidatesFrom(0)) > maxSuggestions
    /\ \E k \in 1 .. Len(suggestions) - 1 :
          /\ suggestions[k].score = suggestions[k + 1].score
          /\ suggestions[k].day < suggestions[k + 1].day
    /\ \E k \in 1 .. Len(suggestions) - 1 :
          suggestions[k].score > suggestions[k + 1].score

\* The names listed in every slot of the window of suggestion s.
InEverySlot(s) ==
    {participants[j].name : j \in
        {j \in DOMAIN participants :
            \A i \in WindowSlots(s) : participants[j].name \in NameSet(SuggestionGrid(s)[i])}}

\* C11: every returned suggestion has a score above 0 and at least one
\* participant available in every slot of its window.
C11_SomeoneForWholeWindow ==
    \A k \in DOMAIN suggestions :
        /\ suggestions[k].score > 0
        /\ InEverySlot(suggestions[k]) # {}

\* The participants whose name is in the set.
Named(names) == {k \in DOMAIN participants : participants[k].name \in names}

\* No candidate of all with fewer or as many available scores more than
\* another.
ScoreGrowsWithAvailable(all) ==
    \A a \in DOMAIN all, b \in DOMAIN all :
        Cardinality(all[a].available) <= Cardinality(all[b].available)
            => all[a].score <= all[b].score

ScoreWithinAvailable(all) ==
    \A a \in DOMAIN all :
        /\ all[a].score >= Cardinality(all[a].available)
        /\ all[a].score <=
              (SlotsNeeded(duration) + 2) * Cardinality(Named(all[a].available))

FewerScoresHigher(all) ==
    \E a \in DOMAIN all, b \in DOMAIN all :
        /\ Cardinality(all[a].available) < Cardinality(all[b].available)
        /\ all[a].score > all[b].score

ListedAt(p, lunch, instant) ==
    InWindowAt(p, instant) /\ ~(lunch /\ InLunchAt(p, instant))

\* The start index, within its day, of the window of suggestion s.
StartIndex(s) == (s.start % DayMinutes) \div SlotMinutes

\* C13: when a participant is added who is available in every slot of the
\* window of the current top suggestion, the score calculateBestTimes
\* computes for that window (same day, same start index) afterwards is not
\* below the top suggestion's score.
C13_AddNeverLowersTopWindow ==
    [][ ( /\ op' = "addParticipant"
          /\ suggestions # <<>>
          /\ \A i \in StartIndex(suggestions[1])
                        .. StartIndex(suggestions[1]) + SlotsNeeded(duration) - 1 :
                ListedAt(participants'[Len(participants')], excludeLunch',
                         UtcDate(BaseDate(now', suggestions[1].day)) * DayMinutes
                           + i * SlotMinutes) )
        => Candidate(cache'[CacheKey(BaseDate(now', suggestions[1].day), participants')],
                     participants', StartIndex(suggestions[1]),
                     SlotsNeeded(duration)).score
             >= suggestions[1].score
      ]_vars

\* The number of half hours a meeting of dur minutes takes up.
HalfHours(dur) == (dur + 29) \div 30

\* The start index of suggestion s within the day it was computed for.
IndexInDay(s) ==
    (s.start - UtcDate(BaseDate(now, s.day)) * DayMinutes) \div SlotMinutes

\* C14: every window calculateBestTimes has scored lies within the slots
\* 0..47, its start index within 0 .. 48 - slotsNeeded, and a duration of
\* more than 48 half hours gives the empty list.
C14_WindowsStayInsideDay ==
    /\ \A k \in DOMAIN suggestions :
          /\ IndexInDay(suggestions[k]) \in 0 .. 48 - HalfHours(duration)
          /\ \A j \in 0 .. HalfHours(duration) - 1 :
                IndexInDay(suggestions[k]) + j \in 0 .. 47
    /\ HalfHours(duration) > 48 => suggestions = <<>>

C14_Witness ==
    /\ op = "durationChange"
    /\ HalfHours(duration) > 48
    /\ \E k \in DOMAIN participants : participants[k].timezone \in Zones
    /\ suggestions = <<>>

\* The participants whose timezone the host cannot project into.
Failing == {k \in DOMAIN participants : participants[k].timezone \notin Zones}

\* The list as it would be with the failing participants absent.
WithoutFailing == SelectSeq(participants, LAMBDA p : p.timezone \in Zones)

\* C15: a grid built while the projection fails for a participant still has
\* 48 slots, lists that participant in no slot, and holds in every slot the
\* count and the listing the other participants would have without it.
C15_FailingParticipantLeftOut ==
    \A j \in DOMAIN calls :
        (~calls[j].hit /\ Failing # {}) =>
            /\ DOMAIN calls[j].grid = 0 .. 47
            /\ \A i \in 0 .. 47 : \A k \in Failing :
                  participants[k].name \notin NameSet(calls[j].grid[i])
            /\ calls[j].grid = BuildGrid(WithoutFailing, excludeLunch, calls[j].utcDay)

C15_Witness ==
    /\ Failing # {}
    /\ \E j \in DOMAIN calls :
          /\ ~calls[j].hit
          /\ \E i \in 0 .. 47 :
                /\ calls[j].grid[i].count >= 2
                /\ \E k \in Failing : \E m \in DOMAIN participants :
                      m > k /\ participants[m].name \in NameSet(calls[j].grid[i])

\* "HH:MM" with the hour within 0..23 and the minute within 0..59.
WellFormed(t) == t[1] \in 0 .. 23 /\ t[2] \in 0 .. 59

\* C16: a start or end time outside hour 0..23, minute 0..59 is never parsed
\* into a minute value the grid builder uses: no grid built lists a
\* participant on the strength of such a time.
C16_MalformedTimeNeverUsed ==
    \A k \in DOMAIN participants :
        ~(WellFormed(participants[k].start) /\ WellFormed(participants[k].end)) =>
            \A j \in DOMAIN calls : \A i \in DOMAIN calls[j].grid :
                ~calls[j].hit => participants[k].name \notin NameSet(calls[j].grid[i])

\* The local hour of p at the instant is before 7 or from 22 on.
NightAt(p, instant) ==
    LocalMinuteAt(p, instant) \div 60 < 7 \/ LocalMinuteAt(p, instant) \div 60 >= 22

\* The flags of one slot against the participants it lists.
FlagsMatchListed(slot, instant) ==
    /\ \A e \in DOMAIN slot.participants :
          \E k \in DOMAIN participants :
              /\ participants[k].name = slot.participants[e].name
              /\ slot.participants[e].isConflict = NightAt(participants[k], instant)
    /\ slot.hasConflict
         = (\E k \in DOMAIN participants :
               /\ participants[k].name \in NameSet(slot)
               /\ NightAt(participants[k], instant))

\* C17: in a freshly built grid a slot's hasConflict is TRUE exactly when a
\* participant listed in the slot has a local hour before 7 or from 22 on at
\* the slot's instant, a participant not listed never sets it, and the
\* isConflict of each listed participant is that test.
C17_ConflictFlagsFollowListed ==
    \A j \in DOMAIN calls :
        ~calls[j].hit =>
            \A i \in DOMAIN calls[j].grid :
                FlagsMatchListed(calls[j].grid[i], SlotInstant(calls[j], i))

C17_Witness ==
    \E j \in DOMAIN calls :
        /\ ~calls[j].hit
        /\ \E i, m \in DOMAIN calls[j].grid :
              /\ calls[j].grid[i].hasConflict
              /\ calls[j].grid[i].count >= 2
              /\ \E e \in DOMAIN calls[j].grid[i].participants :
                    ~calls[j].grid[i].participants[e].isConflict
              /\ ~calls[j].grid[m].hasConflict
              /\ \E k \in DOMAIN participants :
                    /\ participants[k].timezone \in Zones
                    /\ participants[k].name \notin NameSet(calls[j].grid[m])
                    /\ NightAt(participants[k], SlotInstant(calls[j], m))

\* The names a grid built now for the call's day would list in slot i.
ListedNames(call, i) ==
    {participants[k].name :
        k \in {k \in DOMAIN participants :
                 ListedAt(participants[k], excludeLunch, SlotInstant(call, i))}}

\* C18: every grid calculateSlotAvailability returns, built or taken from
\* the cache, has exactly the 48 slots 0..47 and in every slot a count from
\* 0 to the number of participants, which is the number it lists; in a grid
\* just built slot i lists who is available at UTC minute i*30 of the day.
C18_GridHasFortyEightSlots ==
    \A j \in DOMAIN calls :
        /\ DOMAIN calls[j].grid = 0 .. 47
        /\ \A i \in DOMAIN calls[j].grid :
              /\ calls[j].grid[i].count \in 0 .. Len(participants)
              /\ calls[j].grid[i].count = Len(calls[j].grid[i].participants)
              /\ ~calls[j].hit => NameSet(calls[j].grid[i]) = ListedNames(calls[j], i)

C18_Witness ==
    /\ Len(participants) >= 2
    /\ \E j \in DOMAIN calls :
          /\ calls[j].hit
          /\ \E i \in DOMAIN calls[j].grid : calls[j].grid[i].count = Len(participants)
          /\ \E i \in DOMAIN calls[j].grid : calls[j].grid[i].count = 0

\* C19: the score calculateTimezoneCompatibility returns is an integer from
\* 0 to 100, and it is 0 when the list holds fewer than 2 participants,
\* whatever their windows.
C19_CompatibilityWithinHundred ==
    participants # <<>> =>
        /\ compatibility \in 0 .. 100
        /\ Len(participants) < 2 => compatibility = 0

C19_Witness ==
    /\ Len(participants) = 1
    /\ compatibility = 0
    /\ op = "excludeLunchChange"
    /\ \E i \in 0 .. 47 :
          cache[CacheKey(BaseDate(now, 0), participants)][i].count = 1

\* The overlap of participants a and b in tenths of an hour: half an hour
\* for every slot of today's UTC day in which both are inside their window.
OverlapTenths(a, b) ==
    5 * Cardinality({i \in 0 .. 47 :
          /\ participants[a].timezone \in Zones
          /\ participants[b].timezone \in Zones
          /\ InWindowAt(participants[a], UtcDate(now) * DayMinutes + i * 30)
          /\ InWindowAt(participants[b], UtcDate(now) * DayMinutes + i * 30)})

\* The pairs a < b of the list, and those among the pairs shown.
AllPairs == {ab \in (DOMAIN participants) \X (DOMAIN participants) : ab[1] < ab[2]}

Shows(pair, ab) ==
    pair.p1 = participants[ab[1]].name /\ pair.p2 = participants[ab[2]].name

Omitted == {ab \in AllPairs : \A k \in DOMAIN worstPairs : ~Shows(worstPairs[k], ab)}

\* C20: findWorstTimezonePairs returns at most 3 pairs, each a pair of two
\* different participants with its overlap below 3 hours, in ascending
\* order of overlap, and no pair left out overlaps less than one returned.
C20_WorstPairsLeastFirst ==
    /\ Len(worstPairs) <= 3
    /\ \A k \in DOMAIN worstPairs :
          \E ab \in AllPairs :
              /\ Shows(worstPairs[k], ab)
              /\ worstPairs[k].overlap = OverlapTenths(ab[1], ab[2])
              /\ worstPairs[k].overlap < 30
    /\ \A k, m \in DOMAIN worstPairs :
          /\ k < m => worstPairs[k].overlap <= worstPairs[m].overlap
          /\ k # m => (worstPairs[k].p1 # worstPairs[m].p1
                         \/ worstPairs[k].p2 # worstPairs[m].p2)
    /\ \A ab \in Omitted : \A k \in DOMAIN worstPairs :
          OverlapTenths(ab[1], ab[2]) >= worstPairs[k].overlap

C20_Witness ==
    /\ Len(worstPairs) = 3
    /\ worstPairs[1].overlap < worstPairs[3].overlap
    /\ \E ab \in Omitted : OverlapTenths(ab[1], ab[2]) < 30
    /\ \E ab \in Omitted : OverlapTenths(ab[1], ab[2]) > worstPairs[3].overlap

\* C21: findWorstTimezonePairs gives the same pairs with excludeLunch on and
\* off for the same participants and day: switching the setting leaves the
\* pairs renderAnalytics shows as they were.
C21_WorstPairsIgnoreLunch ==
    [][ (op' = "excludeLunchChange" /\ Len(participants) >= 2)
          => worstPairs' = worstPairs ]_vars

\* The setting is on, pairs are shown, and a participant of a shown pair is
\* inside the own window during the own lunch hour.
C21_Witness ==
    /\ op = "excludeLunchChange"
    /\ excludeLunch
    /\ worstPairs # <<>>
    /\ \E k \in DOMAIN worstPairs : \E a \in DOMAIN participants : \E i \in 0 .. 47 :
          /\ participants[a].name = worstPairs[k].p1
          /\ participants[a].timezone \in Zones
          /\ worstPairs[k].overlap > 0
          /\ InWindowAt(participants[a], UtcDate(now) * DayMinutes + i * 30)
          /\ InLunchAt(participants[a], UtcDate(now) * DayMinutes + i * 30)

\* C22: with no participants calculateBestTimes returns the empty list,
\* calculateTimezoneCompatibility returns 0 and findWorstTimezonePairs
\* returns the empty list, under every setting and whatever the cache holds.
C22_NothingForEmptyList ==
    (op = "callCoreFunctions" /\ participants = <<>>) =>
        /\ suggestions = <<>>
        /\ compatibility = 0
        /\ worstPairs = <<>>

\* The functions were called on the empty list after it had held someone,
\* with a grid of that list still in the cache next to the empty list's own.
C22_Witness ==
    /\ op = "callCoreFunctions"
    /\ participants = <<>>
    /\ suggestions = <<>>
    /\ compatibility = 0
    /\ days > 1
    /\ duration # DefaultDuration
    /\ \E key \in DOMAIN cache : key[2] # <<>>
    /\ \E key \in DOMAIN cache : key[2] = <<>>

\* Suggestion s lists both of the pair as available and starts, between
\* 13:00 and 16:30 UTC, at an instant inside both windows.
BothAtStart(s) ==
    /\ {Alice.name, BobLondon.name} \subseteq s.available
    /\ s.start % DayMinutes \in 13 * 60 .. 16 * 60 + 29
    /\ InWindowAt(Alice, s.start)
    /\ InWindowAt(BobLondon, s.start)

\* C23: with Alice (America/New_York, 09:00-17:00) and Bob (Europe/London,
\* 08:30-16:30), a duration of 30 minutes and one day scanned,
\* calculateBestTimes returns a suggestion that has both available and
\* starts inside the overlap of their windows, between 13:00 and 16:30 UTC.
C23_DemoPairMeets ==
    (participants = DemoPair /\ duration = 30 /\ days = 1) =>
        \E k \in DOMAIN suggestions : BothAtStart(suggestions[k])

C23_Witness ==
    /\ participants = DemoPair /\ duration = 30 /\ days = 1
    /\ op = "durationChange"
    /\ maxSuggestions = 1
    /\ Len(suggestions) = 1
    /\ BothAtStart(suggestions[1])

\* Participant p is inside the own window in some slot of the window of s.
InWindowDuring(p, s) ==
    \E j \in 0 .. SlotsNeeded(duration) - 1 : InWindowAt(p, s.start + j * SlotMinutes)

\* C24: in every suggestion the localTimes entry of a participant is marked
\* available only if that participant is included in a slot of the window,
\* also when another participant of the list carries the same name.
C24_AvailableMarksTheParticipant ==
    \A k \in DOMAIN suggestions : \A j \in DOMAIN participants :
        (participants[j].timezone \in Zones /\ suggestions[k].localTimes[j].available)
            => InWindowDuring(participants[j], suggestions[k])

\* C25: calculateSlotAvailability, calculateBestTimes,
\* calculateTimezoneCompatibility and findWorstTimezonePairs leave
\* state.participants as it was: the same records in the same order.
C25_CoreLeavesParticipants ==
    [][ op' = "callCoreFunctions" => participants' = participants ]_vars

\* The functions ran on a list of two different participants: grids were
\* looked up, suggestions ranked, a score and the pairs computed.
C25_Witness ==
    /\ op = "callCoreFunctions"
    /\ Len(participants) >= 2
    /\ participants[1].name # participants[2].name
    /\ Len(calls) >= 2
    /\ suggestions # <<>>
    /\ compatibility > 0
    /\ worstPairs # <<>>

\* The clocks the program has been at before the present one.
EarlierClocks == {NowStart + k * ClockStep : k \in 0 .. MaxTicks} \cap 0 .. now - 1

\* The base dates of earlier calls that computed the key.
EarlierBaseDates(key) ==
    {BaseDate(t, d) : t \in EarlierClocks, d \in 0 .. MaxDays - 1}
        \cap {bd \in 0 .. now + MaxDays * DayMinutes : CacheKey(bd, participants) = key}

\* C26: the day part of the cache key identifies the UTC day the grid is
\* built for: a call of calculateSlotAvailability that finds its key in a
\* cache filled before the clock moved computes the UTC day of the base
\* dates that key was computed from, so the hit hands back a grid of that day.
C26_KeyFixesUtcDay ==
    [][ op = "tick" =>
          \A b \in DOMAIN calls' :
              (calls'[b].hit /\ calls'[b].key \in DOMAIN cache) =>
                  \A bd \in EarlierBaseDates(calls'[b].key) :
                      UtcDate(bd) = calls'[b].utcDay ]_vars

\* The participants of a list as a bag of records.
AsBag(parts) ==
    [r \in {parts[k] : k \in DOMAIN parts} |->
        Cardinality({k \in DOMAIN parts : parts[k] = r})]

\* C27: a drag-and-drop reorder only permutes state.participants: after the
\* drop handler the list holds the participants it held before, none lost
\* and none twice, also while a search term filters the cards.
C27_DropOnlyPermutes ==
    [][ op' = "drop" => AsBag(participants') = AsBag(participants) ]_vars

\* The action redo is about to apply.
NextRedo == future[Len(future)]

\* C28: redoing a 'remove' removes the participant recorded in the action,
\* the one with its id, and no other, whatever was done to the list between
\* the undo and the redo.
C28_RedoRemovesTheRecorded ==
    [][ (op' = "performRedo" /\ future # <<>> /\ NextRedo.type = "remove")
          => participants'
               = SelectSeq(participants, LAMBDA p : p.id # NextRedo.participant.id) ]_vars

\* The handlers of the list that push onto the history.
ListHandlers == {"addParticipant", "removeParticipant", "saveEdit"}

C30_NeverMoreThanTwenty == Len(participants) <= ParticipantLimit

=============================================================================
